---- MODULE Spec2Model ----
(***************************************************************************)
(* The quiz subsystem of src/app.py: the Quiz / Question / QuestionOption  *)
(* / QuizSubmission / QuizAnswer tables and the request handlers           *)
(* get_quizzes, get_quiz, create_quiz, start_quiz, submit_quiz and         *)
(* get_quiz_attempts.                                                      *)
(*                                                                         *)
(* Flask serves every request on its own thread, each with its own         *)
(* SQLAlchemy session, so a handler is a sequence of database statements   *)
(* that other requests' statements may interleave with.  A handler is cut  *)
(* at the one place where that matters: between its reads (the checks)     *)
(* and its db.session.commit().                                            *)
(*                                                                         *)
(* Table rows are records, a table is the sequence of its rows and a row's *)
(* id is its index (autoincrement primary key, no row is ever deleted).    *)
(* A nullable column holds NULL (the empty tuple) or Some(v).              *)
(* Float columns are modelled by exact integers and, for percentage, an    *)
(* exact fraction num/den (den > 0).                                       *)
(***************************************************************************)
EXTENDS Integers, Sequences, FiniteSets, TLC

VARIABLES quiz, question, option, submission, answer, req, resp, now

vars == <<quiz, question, option, submission, answer, req, resp, now>>

\* ------------------------------------------------------------------ bounds
MaxSubmissions == 2
MaxTime == 1
MaxAnswers == 2
MaxQuizzes == 2

\* Two request threads: the least that lets two handlers overlap.
Workers == {1, 2}

\* ------------------------------------------------------------- nullable
NULL == <<>>
Some(v) == <<v>>

\* ----------------------------------------------------------------- users
\* The User table: two students, an instructor and an admin.  Principal 0 is
\* a request for which get_current_user() returns None.
UserRole ==
    [u \in {1, 2, 3, 4} |->
        IF u = 3 THEN "instructor" ELSE IF u = 4 THEN "admin" ELSE "student"]
NoUser == 0

\* Faulty variant: a request without a valid token is taken for user 1
get_current_user_Default(principal) == IF principal \in DOMAIN UserRole THEN principal ELSE 1

\* The user of the request's Bearer token, None when there is no valid one
get_current_user(principal) == IF principal \in DOMAIN UserRole THEN principal ELSE NoUser

\* ----------------------------------------------------------- Python str()
Digits == <<"0", "1", "2", "3", "4", "5", "6", "7", "8", "9">>

RECURSIVE StrNat(_)
StrNat(n) == IF n < 10 THEN <<Digits[n + 1]>>
             ELSE StrNat(n \div 10) \o <<Digits[(n % 10) + 1]>>

\* str(n) of a Python int
StrInt(n) == IF n < 0 THEN <<"-">> \o StrNat(-n) ELSE StrNat(n)

RECURSIVE JoinInts(_, _)
JoinInts(items, i) ==
    IF i > Len(items) THEN <<>>
    ELSE (IF i > 1 THEN <<",", " ">> ELSE <<>>) \o StrInt(items[i]) \o JoinInts(items, i + 1)

\* str(l) of a Python list of ints: "[1, 2]"
StrList(items) == <<"[">> \o JoinInts(items, 1) \o <<"]">>

\* The JSON value of an answer's selected_options: a bare number
\* (kind "int", items = <<n>>) or an array of numbers (kind "list").
\* A missing key reads as the default [], the empty list.
SelInt(n) == [kind |-> "int", items |-> <<n>>]
SelList(items) == [kind |-> "list", items |-> items]

PyStr(sel) == IF sel.kind = "int" THEN StrInt(sel.items[1]) ELSE StrList(sel.items)

\* Python's `sub in s` on strings
StrContains(sub, s) ==
    \E i \in 0..(Len(s) - Len(sub)) : SubSeq(s, i + 1, i + Len(sub)) = sub

\* ------------------------------------------------------------ catalogue
\* create_quiz: the rows it inserts for the request body `data`
\* (module_id, time_limit, max_attempts, passing_score, is_published,
\* questions[]);
\* `cat` is the record of the three catalogue tables.
QuizRow(data) ==
    [module_id |-> data.module_id,
     time_limit |-> data.time_limit,
     max_attempts |-> data.max_attempts,
     passing_score |-> data.passing_score,
     is_published |-> data.is_published]

QuestionRow(quiz_id, q_data, i) ==
    [quiz_id |-> quiz_id,
     question_type |-> q_data.question_type,
     points |-> q_data.points,
     order |-> i]

RECURSIVE OptionRows(_, _, _)
OptionRows(question_id, options, j) ==
    IF j > Len(options) THEN <<>>
    ELSE <<[question_id |-> question_id,
            is_correct |-> options[j].is_correct,
            order |-> j - 1]>> \o OptionRows(question_id, options, j + 1)

RECURSIVE AddQuestions(_, _, _, _)
AddQuestions(cat, quiz_id, questions, i) ==
    IF i > Len(questions) THEN cat
    ELSE LET qs == Append(cat.question, QuestionRow(quiz_id, questions[i], i - 1))
         IN AddQuestions([cat EXCEPT !.question = qs,
                                     !.option = cat.option \o OptionRows(Len(qs), questions[i].options, 1)],
                         quiz_id, questions, i + 1)

create_quiz_rows(cat, data) ==
    LET qz == Append(cat.quiz, QuizRow(data))
    IN AddQuestions([cat EXCEPT !.quiz = qz], Len(qz), data.questions, 1)

EmptyCatalogue == [quiz |-> <<>>, question |-> <<>>, option |-> <<>>]

\* The catalogue after create_quiz has run on each body of `bodies` in turn.
RECURSIVE Catalogue(_, _)
Catalogue(bodies, n) ==
    IF n = 0 THEN EmptyCatalogue
    ELSE create_quiz_rows(Catalogue(bodies, n - 1), bodies[n])

\* ---------------------------------------------------------------- scoring
\* Question.query.get(id): the row, or None
QuestionGet(question_id) ==
    IF question_id \in DOMAIN question THEN Some(question[question_id]) ELSE NULL

\* QuestionOption.query.filter_by(question_id=.., is_correct=True).first():
\* what the query may return.  It has no ORDER BY, so of several matching
\* rows the database returns any one; None when no row matches.
CorrectOption(question_id) ==
    LET ids == {o \in DOMAIN option :
                    option[o].question_id = question_id /\ option[o].is_correct}
    IN IF ids = {} THEN {NULL} ELSE {Some(o) : o \in ids}

\* if correct_option and str(correct_option.id) in str(selected_options)
MultipleChoiceCorrect(correct_option, sel) ==
    /\ correct_option # NULL
    /\ StrContains(StrInt(correct_option[1]), PyStr(sel))

\* if correct_option and str(correct_option.id) == str(selected_options)
TrueFalseCorrect(correct_option, sel) ==
    /\ correct_option # NULL
    /\ StrInt(correct_option[1]) = PyStr(sel)

\* The body of the scoring loop for one answer naming an existing question,
\* correct_option being what the lookup of the correct option returned:
\* (is_correct, points_earned)
GradeAnswer(question_id, sel, correct_option) ==
    LET q == question[question_id]
        ok == CASE q.question_type = "multiple_choice" -> MultipleChoiceCorrect(correct_option, sel)
                [] q.question_type = "true_false" -> TrueFalseCorrect(correct_option, sel)
                [] OTHER -> FALSE
    IN [is_correct |-> ok, points_earned |-> IF ok THEN q.points ELSE 0]

\* The lookups of one run of the scoring loop: for every answer the row its
\* query returns (NULL where the loop makes no query: unknown question,
\* short_answer).
Lookups(answers) ==
    {first \in [DOMAIN answers -> {NULL} \cup {Some(o) : o \in DOMAIN option}] :
        \A i \in DOMAIN answers :
            LET question_id == answers[i].question_id
            IN IF /\ question_id \in DOMAIN question
                  /\ question[question_id].question_type \in {"multiple_choice", "true_false"}
               THEN first[i] \in CorrectOption(question_id)
               ELSE first[i] = NULL}

\* Faulty variant: `break` in place of `continue` at an answer that names
\* no question, so the answers after it are dropped
RECURSIVE ScoreLoop_Break(_, _, _, _, _)
ScoreLoop_Break(submission_id, answers, i, acc, first) ==
    IF i > Len(answers) THEN acc
    ELSE LET ans_data == answers[i]
         IN IF QuestionGet(ans_data.question_id) = NULL
            THEN acc
            ELSE LET g == GradeAnswer(ans_data.question_id, ans_data.selected_options, first[i])
                     row == [submission_id |-> submission_id,
                             question_id |-> ans_data.question_id,
                             selected_options |-> ans_data.selected_options,
                             is_correct |-> g.is_correct,
                             points_earned |-> g.points_earned]
                 IN ScoreLoop_Break(submission_id, answers, i + 1,
                                    [total_points |-> acc.total_points + question[ans_data.question_id].points,
                                     earned_points |-> acc.earned_points + g.points_earned,
                                     rows |-> Append(acc.rows, row)],
                                    first)

\* The scoring loop over the submitted answers, from answer i on:
\* total_points, earned_points and the QuizAnswer rows added to the session;
\* first[i] is what the lookup made for answer i returned.
RECURSIVE ScoreLoop(_, _, _, _, _)
ScoreLoop(submission_id, answers, i, acc, first) ==
    IF i > Len(answers) THEN acc
    ELSE LET ans_data == answers[i]
         IN IF QuestionGet(ans_data.question_id) = NULL
            THEN ScoreLoop(submission_id, answers, i + 1, acc, first)
            ELSE LET g == GradeAnswer(ans_data.question_id, ans_data.selected_options, first[i])
                     row == [submission_id |-> submission_id,
                             question_id |-> ans_data.question_id,
                             selected_options |-> ans_data.selected_options,
                             is_correct |-> g.is_correct,
                             points_earned |-> g.points_earned]
                 IN ScoreLoop(submission_id, answers, i + 1,
                              [total_points |-> acc.total_points + question[ans_data.question_id].points,
                               earned_points |-> acc.earned_points + g.points_earned,
                               rows |-> Append(acc.rows, row)],
                              first)

\* The scoring loop run with the lookups `first`
Score(submission_id, answers, first) ==
    ScoreLoop(submission_id, answers, 1,
              [total_points |-> 0, earned_points |-> 0, rows |-> <<>>], first)

\* percentage = (earned_points / total_points * 100) if total_points > 0 else 0
\* as the exact fraction num / den
Percentage(earned_points, total_points) ==
    IF total_points > 0 THEN [num |-> earned_points * 100, den |-> total_points]
    ELSE [num |-> 0, den |-> 1]

\* passed = percentage >= quiz.passing_score
Passed(percentage, passing_score) == percentage.num >= passing_score * percentage.den

\* ------------------------------------------------------- request handling
Idle == [pc |-> "idle", user |-> NoUser, quiz_id |-> 0, attempts |-> 0,
         submission_id |-> 0, answers |-> <<>>, questions |-> <<>>]

\* The response of the handler step just taken; NoResp after a step that
\* has not returned yet.  `body` is what the JSON payload lists, a sequence
\* of records (empty where the payload is not modelled).
NoResp == [op |-> "none", status |-> 0, error |-> "", body |-> <<>>]
Reply(op, status, error) ==
    resp' = [op |-> op, status |-> status, error |-> error, body |-> <<>>]
ReplyBody(op, status, body) ==
    resp' = [op |-> op, status |-> status, error |-> "", body |-> body]

\* return jsonify({'error': 'Unauthorized'}), 401: no user for the request
Unauthenticated(op) ==
    [op |-> op, status |-> 401, error |-> "Unauthorized", body |-> <<>>]

\* The error responses the claims name
LimitExceeded ==
    [op |-> "start", status |-> 400, error |-> "Maximum attempts reached", body |-> <<>>]
Conflict ==
    [op |-> "submit", status |-> 400, error |-> "Already submitted", body |-> <<>>]
Forbidden ==
    [op |-> "submit", status |-> 403, error |-> "Access denied", body |-> <<>>]

\* QuizSubmission.query.filter_by(quiz_id=.., student_id=..).count()
AttemptCount(quiz_id, student_id) ==
    Cardinality({s \in DOMAIN submission :
                    /\ submission[s].quiz_id = quiz_id
                    /\ submission[s].student_id = student_id})

\* Faulty variant: the limit compared with > in place of >=
AttemptsExhausted_OffByOne(attempts, max_attempts) == attempts > max_attempts

\* if attempts >= quiz.max_attempts
AttemptsExhausted(attempts, max_attempts) == attempts >= max_attempts

\* Inserts that requests already past their count will still make; a start
\* passes its checks only while the table, with those, stays within
\* MaxSubmissions rows (the table itself is unbounded).
PendingStarts == Cardinality({w \in Workers : req[w].pc = "start_insert"})

\* start_quiz up to and including the attempt count: every early return,
\* or the count kept for the insert.
StartCheck(w, principal, quiz_id) ==
    /\ req[w].pc = "idle"
    /\ LET user == get_current_user(principal)
       IN IF user = NoUser
          THEN Reply("start", 401, "Unauthorized") /\ UNCHANGED req
          ELSE IF quiz_id \notin DOMAIN quiz
          THEN Reply("start", 404, "Not Found") /\ UNCHANGED req
          ELSE IF ~quiz[quiz_id].is_published
          THEN Reply("start", 403, "Quiz not available") /\ UNCHANGED req
          ELSE LET attempts == AttemptCount(quiz_id, user)
               IN IF AttemptsExhausted(attempts, quiz[quiz_id].max_attempts)
                  THEN Reply("start", 400, "Maximum attempts reached") /\ UNCHANGED req
                  ELSE /\ Len(submission) + PendingStarts < MaxSubmissions
                       /\ req' = [req EXCEPT ![w] = [Idle EXCEPT !.pc = "start_insert",
                                                                 !.user = user,
                                                                 !.quiz_id = quiz_id,
                                                                 !.attempts = attempts]]
                       /\ resp' = NoResp
    /\ UNCHANGED <<quiz, question, option, submission, answer, now>>

\* Faulty variant: the new row's score preset to 0
NewSubmission_ZeroScore(quiz_id, student_id, attempt_number) ==
    [quiz_id |-> quiz_id, student_id |-> student_id, attempt_number |-> attempt_number,
     score |-> Some(0), max_score |-> NULL, percentage |-> NULL, passed |-> NULL,
     started_at |-> now, submitted_at |-> NULL, time_spent_seconds |-> NULL]

\* QuizSubmission(quiz_id, student_id, attempt_number) with the column defaults
NewSubmission(quiz_id, student_id, attempt_number) ==
    [quiz_id |-> quiz_id, student_id |-> student_id, attempt_number |-> attempt_number,
     score |-> NULL, max_score |-> NULL, percentage |-> NULL, passed |-> NULL,
     started_at |-> now, submitted_at |-> NULL, time_spent_seconds |-> NULL]

\* Faulty variant: the new row takes the place of the latest attempt
StartInsert_Replace(w) ==
    /\ req[w].pc = "start_insert"
    /\ submission' = (IF submission = <<>> THEN <<>>
                      ELSE SubSeq(submission, 1, Len(submission) - 1))
                         \o <<NewSubmission(req[w].quiz_id, req[w].user, req[w].attempts + 1)>>
    /\ req' = [req EXCEPT ![w] = Idle]
    /\ Reply("start", 200, "")
    /\ UNCHANGED <<quiz, question, option, answer, now>>

\* start_quiz from the insert on: the new row is committed and returned.
StartInsert(w) ==
    /\ req[w].pc = "start_insert"
    /\ submission' = Append(submission,
                            NewSubmission(req[w].quiz_id, req[w].user, req[w].attempts + 1))
    /\ req' = [req EXCEPT ![w] = Idle]
    /\ Reply("start", 200, "")
    /\ UNCHANGED <<quiz, question, option, answer, now>>

\* Faulty variant: the ownership check dropped
NotOwner_Never(sub, user) == FALSE

\* if submission.student_id != user.id
NotOwner(sub, user) == sub.student_id # user

\* Faulty variant: a submit later than the start is refused as well
AlreadySubmitted_OrLate(sub) == sub.submitted_at # NULL \/ now > sub.started_at

\* Faulty variant: the already-submitted check dropped
AlreadySubmitted_Never(sub) == FALSE

\* if submission.submitted_at
AlreadySubmitted(sub) == sub.submitted_at # NULL

\* submit_quiz up to the scoring: every early return, or the request kept
\* for the scoring and the commit.
SubmitCheck(w, principal, quiz_id, submission_id, answers) ==
    /\ req[w].pc = "idle"
    /\ LET user == get_current_user(principal)
       IN IF user = NoUser
          THEN Reply("submit", 401, "Unauthorized") /\ UNCHANGED req
          ELSE IF quiz_id \notin DOMAIN quiz \/ submission_id \notin DOMAIN submission
          THEN Reply("submit", 404, "Not Found") /\ UNCHANGED req
          ELSE IF NotOwner(submission[submission_id], user)
          THEN Reply("submit", 403, "Access denied") /\ UNCHANGED req
          ELSE IF AlreadySubmitted(submission[submission_id])
          THEN Reply("submit", 400, "Already submitted") /\ UNCHANGED req
          ELSE /\ req' = [req EXCEPT ![w] = [Idle EXCEPT !.pc = "submit_commit",
                                                         !.user = user,
                                                         !.quiz_id = quiz_id,
                                                         !.submission_id = submission_id,
                                                         !.answers = answers]]
               /\ resp' = NoResp
    /\ UNCHANGED <<quiz, question, option, submission, answer, now>>

\* The submission row as submit_quiz leaves it.
Graded(sub, passing_score, earned_points, total_points) ==
    LET percentage == Percentage(earned_points, total_points)
    IN [sub EXCEPT !.score = Some(earned_points),
                   !.max_score = Some(total_points),
                   !.percentage = Some(percentage),
                   !.passed = Some(Passed(percentage, passing_score)),
                   !.submitted_at = Some(now),
                   !.time_spent_seconds = Some(now - sub.started_at)]

\* submit_quiz from the scoring loop on: the answers are scored, the
\* QuizAnswer rows and the result are committed.
SubmitCommit(w) ==
    /\ req[w].pc = "submit_commit"
    /\ \E first \in Lookups(req[w].answers) :
          LET sid == req[w].submission_id
              sc == Score(sid, req[w].answers, first)
          IN /\ answer' = answer \o sc.rows
             /\ submission' = [submission EXCEPT ![sid] =
                                   Graded(@, quiz[req[w].quiz_id].passing_score,
                                          sc.earned_points, sc.total_points)]
    /\ req' = [req EXCEPT ![w] = Idle]
    /\ Reply("submit", 200, "")
    /\ UNCHANGED <<quiz, question, option, now>>

\* ------------------------------------------------------ catalogue requests
\* user.role in ['admin', 'instructor']
Staff == {"admin", "instructor"}

\* The ids of S, greatest first: order_by(Quiz.created_at.desc()), a later
\* row having the later created_at.
RECURSIVE Descending(_)
Descending(S) ==
    IF S = {} THEN <<>>
    ELSE LET m == CHOOSE x \in S : \A y \in S : y <= x
         IN <<m>> \o Descending(S \ {m})

\* The ids of S, least first
RECURSIVE Ascending(_)
Ascending(S) ==
    IF S = {} THEN <<>>
    ELSE LET m == CHOOSE x \in S : \A y \in S : x <= y
         IN <<m>> \o Ascending(S \ {m})

\* request.args.get('module_id') when the parameter is absent
NoModule == 0

\* if user and user.role not in ['admin', 'instructor']: only then does
\* get_quizzes add the filter is_published = True
PublishedOnly(user) == user # NoUser /\ UserRole[user] \notin Staff

\* get_quizzes: the quizzes of the module (all modules when module_id is
\* absent) that pass the publication filter, latest first.
GetQuizzes(principal, module_id) ==
    /\ LET user == get_current_user(principal)
           listed == {q \in DOMAIN quiz :
                         /\ module_id # NoModule => quiz[q].module_id = module_id
                         /\ PublishedOnly(user) => quiz[q].is_published}
           ids == Descending(listed)
       IN ReplyBody("get_quizzes", 200,
                    [k \in DOMAIN ids |->
                        [id |-> ids[k], is_published |-> quiz[ids[k]].is_published]])
    /\ UNCHANGED <<quiz, question, option, submission, answer, req, now>>

\* if not quiz.is_published and (not user or user.role not in [...])
Hidden(quiz_id, user) ==
    /\ ~quiz[quiz_id].is_published
    /\ (user = NoUser \/ UserRole[user] \notin Staff)

\* quiz.questions.all(): the quiz's questions by Question.order
QuestionsInOrder(quiz_id) ==
    Ascending({x \in DOMAIN question : question[x].quiz_id = quiz_id})

\* get_quiz.  A student gets every question with 'options': None.  For any
\* other requester the options are read with
\* q.options.order_by('option.order'): no table or label `option` exists
\* (the table is question_option), the query fails for every question and
\* the request ends in an unhandled exception, 500; only a quiz without
\* questions is served.  No payload carries is_correct.
GetQuiz(principal, quiz_id) ==
    /\ LET user == get_current_user(principal)
           questions == QuestionsInOrder(quiz_id)
       IN IF quiz_id \notin DOMAIN quiz
          THEN Reply("get_quiz", 404, "Not Found")
          ELSE IF Hidden(quiz_id, user)
          THEN Reply("get_quiz", 404, "Quiz not found")
          ELSE IF user # NoUser /\ UserRole[user] = "student"
          THEN ReplyBody("get_quiz", 200,
                         <<[id |-> quiz_id,
                            questions |-> [k \in DOMAIN questions |->
                                              [id |-> questions[k], options |-> NULL]]]>>)
          ELSE IF questions # <<>>
          THEN Reply("get_quiz", 500, "Internal Server Error")
          ELSE ReplyBody("get_quiz", 200, <<[id |-> quiz_id, questions |-> <<>>]>>)
    /\ UNCHANGED <<quiz, question, option, submission, answer, req, now>>

\* Faulty variant: the test of get_quizzes, which lets a request without a
\* user through
Unauthorized_UsersOnly(user) == user # NoUser /\ UserRole[user] \notin Staff

\* if not user or user.role not in ['admin', 'instructor']
Unauthorized(user) == user = NoUser \/ UserRole[user] \notin Staff

\* return jsonify({'error': 'Unauthorized'}), 403
CreateForbidden ==
    [op |-> "create_quiz", status |-> 403, error |-> "Unauthorized", body |-> <<>>]

\* create_quiz up to its first commit (the quiz row alone): the 403 of a
\* requester who is no admin or instructor, or the quiz committed and the
\* questions kept for the loop.  The quiz table is unbounded; MaxQuizzes
\* bounds it here.
CreateQuiz(w, principal, data) ==
    /\ req[w].pc = "idle"
    /\ LET user == get_current_user(principal)
       IN IF Unauthorized(user)
          THEN Reply("create_quiz", 403, "Unauthorized") /\ UNCHANGED <<quiz, req>>
          ELSE /\ Len(quiz) < MaxQuizzes
               /\ quiz' = Append(quiz, QuizRow(data))
               /\ req' = [req EXCEPT ![w] = [Idle EXCEPT !.pc = "create_questions",
                                                         !.user = user,
                                                         !.quiz_id = Len(quiz) + 1,
                                                         !.questions = data.questions]]
               /\ resp' = NoResp
    /\ UNCHANGED <<question, option, submission, answer, now>>

\* q_data['question_type'] raises KeyError for a question object that has
\* no such key.
MissingKey(questions) ==
    \E i \in DOMAIN questions : "question_type" \notin DOMAIN questions[i]

\* create_quiz from the question loop on: the questions and options are
\* added as given, without any validation, and committed together; 201.
\* When a question lacks a key the loop raises: the request ends in 500,
\* the questions and options added so far are rolled back with the session,
\* and the quiz row, committed before the loop, stays.
CreateQuestions(w) ==
    /\ req[w].pc = "create_questions"
    /\ IF MissingKey(req[w].questions)
       THEN /\ UNCHANGED <<question, option>>
            /\ Reply("create_quiz", 500, "Internal Server Error")
       ELSE /\ LET cat == AddQuestions([quiz |-> quiz, question |-> question,
                                        option |-> option],
                                       req[w].quiz_id, req[w].questions, 1)
               IN question' = cat.question /\ option' = cat.option
            /\ ReplyBody("create_quiz", 201, <<[id |-> req[w].quiz_id]>>)
    /\ req' = [req EXCEPT ![w] = Idle]
    /\ UNCHANGED <<quiz, submission, answer, now>>

\* .order_by(QuizSubmission.attempt_number).all() over the rows S: every
\* order of the rows in which attempt_number never decreases (the order of
\* rows with equal attempt_number is the database's choice).
OrderedByAttemptNumber(S) ==
    {rows \in [1..Cardinality(S) -> S] :
        \A i, j \in 1..Cardinality(S) :
            i < j => /\ rows[i] # rows[j]
                     /\ submission[rows[i]].attempt_number <= submission[rows[j]].attempt_number}

\* get_quiz_attempts: the requester's submissions of the quiz; the quiz
\* itself is not looked up.
GetQuizAttempts(principal, quiz_id) ==
    /\ LET user == get_current_user(principal)
       IN IF user = NoUser
          THEN Reply("get_quiz_attempts", 401, "Unauthorized")
          ELSE \E rows \in OrderedByAttemptNumber({s \in DOMAIN submission :
                                                      /\ submission[s].quiz_id = quiz_id
                                                      /\ submission[s].student_id = user}) :
                  ReplyBody("get_quiz_attempts", 200,
                            [k \in DOMAIN rows |->
                                [id |-> rows[k],
                                 attempt_number |-> submission[rows[k]].attempt_number]])
    /\ UNCHANGED <<quiz, question, option, submission, answer, req, now>>

\* datetime.utcnow() advances.
Tick ==
    /\ now < MaxTime
    /\ now' = now + 1
    /\ resp' = NoResp
    /\ UNCHANGED <<quiz, question, option, submission, answer, req>>

\* ---------------------------------------------------------- request bodies
Opt(is_correct) == [is_correct |-> is_correct]
QuestionBody(question_type, points, options) ==
    [question_type |-> question_type, points |-> points, options |-> options]
QuizBody(max_attempts, passing_score, is_published, questions) ==
    [module_id |-> 1, time_limit |-> NULL, max_attempts |-> max_attempts,
     passing_score |-> passing_score, is_published |-> is_published,
     questions |-> questions]
Ans(question_id, sel) == [question_id |-> question_id, selected_options |-> sel]

\* A question object without the key question_type
QuestionBodyNoType(points, options) == [points |-> points, options |-> options]

\* --------------------------------------------- the attempt ledger (Spec)
\* One quiz with one multiple-choice question (options 1 and 2, option 1
\* correct), created by create_quiz; no attempt yet.
LedgerCatalogues ==
    {<<QuizBody(m, 60, pub,
                <<QuestionBody("multiple_choice", 1, <<Opt(TRUE), Opt(FALSE)>>)>>)>> :
        m \in {1, 2}, pub \in BOOLEAN}

Callers == {NoUser, 1, 2}
QuizIds == {1, 2}
SubmissionIds == 1..MaxSubmissions
LedgerAnswers == {<<Ans(1, SelList(<<1>>))>>}

InitWith(bodies) ==
    LET cat == Catalogue(bodies, Len(bodies))
    IN /\ quiz = cat.quiz
       /\ question = cat.question
       /\ option = cat.option
       /\ submission = <<>>
       /\ answer = <<>>
       /\ req = [w \in Workers |-> Idle]
       /\ resp = NoResp
       /\ now = 0

Init == \E bodies \in LedgerCatalogues : InitWith(bodies)

Next ==
    \/ \E w \in Workers, p \in Callers, q \in QuizIds : StartCheck(w, p, q)
    \/ \E w \in Workers : StartInsert(w)
    \/ \E w \in Workers, p \in Callers, q \in QuizIds, s \in SubmissionIds,
          a \in LedgerAnswers : SubmitCheck(w, p, q, s, a)
    \/ \E w \in Workers : SubmitCommit(w)

Spec == Init /\ [][Next]_vars

\* The ledger with its reader: get_quiz_attempts at any moment of Spec.
NextAttempts ==
    \/ Next
    \/ \E p \in Callers, q \in QuizIds : GetQuizAttempts(p, q)

SpecAttempts == Init /\ [][NextAttempts]_vars

\* -------------------------------------------- the scoring (SpecScoring)
\* One published quiz of one or two questions, created by create_quiz, and
\* one student who starts it and submits an answer list of at most
\* MaxAnswers answers.  The first question's options get the ids 1 and 2.
OptionPatterns ==
    {<<Opt(TRUE), Opt(FALSE)>>, <<Opt(FALSE), Opt(TRUE)>>,
     <<Opt(TRUE), Opt(TRUE)>>, <<Opt(FALSE), Opt(FALSE)>>}

FirstQuestions ==
    {QuestionBody(t, 2, o) : t \in {"multiple_choice", "true_false"}, o \in OptionPatterns}
        \cup {QuestionBody("short_answer", 2, <<>>)}

SecondQuestions ==
    {<<>>,
     <<QuestionBody("multiple_choice", 1, <<Opt(TRUE), Opt(FALSE)>>)>>,
     <<QuestionBody("multiple_choice", -1, <<Opt(TRUE), Opt(FALSE)>>)>>}

PassingScores == {0, 60}

\* A second quiz, with another passing score; its question gets the id 2.
OtherQuiz == QuizBody(1, 0, TRUE, <<QuestionBody("multiple_choice", 1, <<Opt(TRUE), Opt(FALSE)>>)>>)

ScoringCatalogues ==
    {<<QuizBody(1, ps, TRUE, <<q1>> \o q2)>> :
        ps \in PassingScores, q1 \in FirstQuestions, q2 \in SecondQuestions}
        \cup {<<QuizBody(1, 60, TRUE, <<q1>>), OtherQuiz>> : q1 \in FirstQuestions}

\* What a student may send for question 1: nothing selected, option 1,
\* option 2, both, the option id 12 (no such option), or the bare number 1
\* in place of an array.
Selections ==
    {SelList(<<>>), SelList(<<1>>), SelList(<<2>>), SelList(<<1, 2>>),
     SelList(<<12>>), SelInt(1)}

\* Question 2's first option has id 3 (id 1 when question 1 has no options);
\* question 9 does not exist.
SingleAnswers ==
    {Ans(1, sel) : sel \in Selections}
        \cup {Ans(2, SelList(<<3>>)), Ans(2, SelList(<<1>>)), Ans(9, SelList(<<1>>))}

\* The answer lists of at most n answers
AnswerLists(n) == UNION {[1..k -> SingleAnswers] : k \in 0..n}

\* The attempt is submitted once here; a second submit is Spec's subject.
InProgress(s) == s \in DOMAIN submission /\ submission[s].submitted_at = NULL

InitScoring == \E bodies \in ScoringCatalogues : InitWith(bodies)

NextScoring ==
    \/ StartCheck(1, 1, 1)
    \/ StartInsert(1)
    \/ InProgress(1) /\ \E q \in QuizIds, a \in AnswerLists(MaxAnswers) : SubmitCheck(1, 1, q, 1, a)
    \/ SubmitCommit(1)

SpecScoring == InitScoring /\ [][NextScoring]_vars

\* ---------------------------------------- the catalogue (SpecCatalogue)
\* From the empty database: quizzes are created, one request at a time,
\* and the catalogue is read at any moment (between the two commits of a
\* creation too), by a request without a user, a student, the instructor
\* and the admin.
CatalogueCallers == {NoUser, 1, 3, 4}

\* The question lists of the quizzes created: none, one well-formed
\* question, a question with two correct options and one with none, or a
\* well-formed question followed by one without question_type.
CatalogueQuestions ==
    {<<>>,
     <<QuestionBody("multiple_choice", 1, <<Opt(TRUE), Opt(FALSE)>>)>>,
     <<QuestionBody("multiple_choice", 1, <<Opt(TRUE), Opt(TRUE)>>),
       QuestionBody("true_false", 1, <<Opt(FALSE), Opt(FALSE)>>)>>,
     <<QuestionBody("multiple_choice", 1, <<Opt(TRUE), Opt(FALSE)>>),
       QuestionBodyNoType(1, <<>>)>>}

CatalogueBodies ==
    {QuizBody(1, 60, pub, qs) : pub \in BOOLEAN, qs \in CatalogueQuestions}

ModuleIds == {NoModule, 1, 2}
CatalogueQuizIds == 1..(MaxQuizzes + 1)

InitCatalogue == InitWith(<<>>)

NextCatalogue ==
    \/ \E p \in CatalogueCallers, data \in CatalogueBodies : CreateQuiz(1, p, data)
    \/ CreateQuestions(1)
    \/ \E p \in CatalogueCallers, m \in ModuleIds : GetQuizzes(p, m)
    \/ \E p \in CatalogueCallers, q \in CatalogueQuizIds : GetQuiz(p, q)

SpecCatalogue == InitCatalogue /\ [][NextCatalogue]_vars

\* -------------------------------------- the whole subsystem (SpecSubsystem)
\* From the empty database, one request after the other: the instructor
\* creates quizzes of one question, published or not; a request without a
\* user, student 1 and the instructor read the catalogue, start attempts,
\* submit them and list them.
SubsystemCallers == {NoUser, 1, 3}

SubsystemBodies ==
    {QuizBody(1, 60, pub,
              <<QuestionBody("multiple_choice", 1, <<Opt(TRUE), Opt(FALSE)>>)>>) :
        pub \in BOOLEAN}

InitSubsystem == InitWith(<<>>)

NextSubsystem ==
    \/ \E p \in SubsystemCallers, data \in SubsystemBodies : CreateQuiz(1, p, data)
    \/ CreateQuestions(1)
    \/ \E p \in SubsystemCallers : GetQuizzes(p, NoModule)
    \/ \E p \in SubsystemCallers, q \in QuizIds : GetQuiz(p, q)
    \/ \E p \in SubsystemCallers, q \in QuizIds : StartCheck(1, p, q)
    \/ StartInsert(1)
    \/ \E p \in SubsystemCallers, q \in QuizIds, s \in SubmissionIds, a \in LedgerAnswers :
          SubmitCheck(1, p, q, s, a)
    \/ SubmitCommit(1)
    \/ \E p \in SubsystemCallers, q \in QuizIds : GetQuizAttempts(p, q)

SpecSubsystem == InitSubsystem /\ [][NextSubsystem]_vars

\* ------------------------------------- the life of an attempt (SpecLifecycle)
\* One published quiz with a time limit of 0 minutes that allows two
\* attempts; student 1 starts and submits on two request threads while the
\* clock advances.
LifecycleCatalogue ==
    <<[QuizBody(2, 60, TRUE,
                <<QuestionBody("multiple_choice", 1, <<Opt(TRUE), Opt(FALSE)>>)>>)
          EXCEPT !.time_limit = Some(0)]>>

LifecycleAnswers == {<<Ans(1, SelList(<<1>>))>>, <<Ans(1, SelList(<<2>>))>>}

InitLifecycle == InitWith(LifecycleCatalogue)

NextLifecycle ==
    \/ \E w \in Workers : StartCheck(w, 1, 1)
    \/ \E w \in Workers : StartInsert(w)
    \/ \E w \in Workers, s \in SubmissionIds, a \in LifecycleAnswers : SubmitCheck(w, 1, 1, s, a)
    \/ \E w \in Workers : SubmitCommit(w)
    \/ Tick

SpecLifecycle == InitLifecycle /\ [][NextLifecycle]_vars

\* ---------------------------------- completing an attempt (SpecCompletion)
\* The same quiz and student with one request handled at a time.  A handler
\* that has passed its checks runs on to its commit, and the owner of an
\* attempt in progress keeps sending submits for it: these are the fairness
\* conditions.

\* A submit for attempt s on thread w, sent by the attempt's owner for the
\* attempt's quiz while the attempt is in progress
OwnerSubmit(w, s) ==
    /\ InProgress(s)
    /\ \E a \in LifecycleAnswers :
          SubmitCheck(w, submission[s].student_id, submission[s].quiz_id, s, a)

NextCompletion ==
    \/ StartCheck(1, 1, 1)
    \/ StartInsert(1)
    \/ \E s \in SubmissionIds, a \in LifecycleAnswers : SubmitCheck(1, 1, 1, s, a)
    \/ SubmitCommit(1)
    \/ Tick

SpecCompletion ==
    /\ InitLifecycle
    /\ [][NextCompletion]_vars
    /\ WF_vars(StartInsert(1))
    /\ WF_vars(SubmitCommit(1))
    /\ \A s \in SubmissionIds : WF_vars(OwnerSubmit(1, s))

\* ================================================================ claims
PairCount(q, u) == AttemptCount(q, u)
PairNumbers(q, u) ==
    {submission[s].attempt_number :
        s \in {x \in DOMAIN submission :
                  submission[x].quiz_id = q /\ submission[x].student_id = u}}
Submitted(s) == s \in DOMAIN submission /\ submission[s].submitted_at # NULL
AnswersOf(s) == {i \in DOMAIN answer : answer[i].submission_id = s}

\* C1: under every interleaving of concurrent start calls, the number of
\* attempts of a (quiz, student) pair never exceeds the quiz's max_attempts.
C1_AttemptsWithinMax ==
    \A q \in DOMAIN quiz, u \in DOMAIN UserRole : PairCount(q, u) <= quiz[q].max_attempts

\* C2: the attempt numbers of a (quiz, student) pair are exactly 1..n, n the
\* number of the pair's attempts: no duplicates, no gaps.
C2_AttemptNumbersDense ==
    \A q \in DOMAIN quiz, u \in DOMAIN UserRole : PairNumbers(q, u) = 1..PairCount(q, u)

\* C3: a start for a pair whose attempt count equals the quiz's max_attempts
\* is answered "Maximum attempts reached" (LimitExceeded), returns at once
\* (no insert is pending) and leaves the attempt and answer tables unchanged.
C3_StartAtLimitRejected ==
    [][\A w \in Workers, p \in Callers \ {NoUser}, q \in DOMAIN quiz :
          (PairCount(q, p) = quiz[q].max_attempts /\ StartCheck(w, p, q))
              => /\ resp' = LimitExceeded
                 /\ req'[w] = Idle
                 /\ submission' = submission
                 /\ answer' = answer]_vars

\* C3 witness: a start was just refused at the limit, the pair's attempts
\* being as many as the quiz allows.
C3_Witness ==
    /\ resp = LimitExceeded
    /\ \E q \in DOMAIN quiz, u \in DOMAIN UserRole : PairCount(q, u) = quiz[q].max_attempts

\* C4: of two submits in sequence by the owner, the first (on the attempt in
\* progress) passes the checks and its commit answers 200 and marks the
\* attempt submitted; the second (on the attempt already submitted) is
\* answered "Already submitted" (Conflict), returns at once and changes
\* neither the attempt nor the answers.
C4_ResubmitConflict ==
    [][/\ \A w \in Workers, p \in Callers \ {NoUser}, q \in DOMAIN quiz,
             s \in DOMAIN submission, a \in LedgerAnswers :
             (submission[s].student_id = p /\ SubmitCheck(w, p, q, s, a))
                 => IF submission[s].submitted_at = NULL
                    THEN req'[w].pc = "submit_commit" /\ req'[w].submission_id = s
                    ELSE /\ resp' = Conflict
                         /\ req'[w] = Idle
                         /\ submission' = submission
                         /\ answer' = answer
       /\ \A w \in Workers :
             SubmitCommit(w)
                 => /\ resp'.op = "submit" /\ resp'.status = 200
                    /\ submission'[req[w].submission_id].submitted_at # NULL]_vars

\* C4 witness: a second submit was just refused; the attempt is submitted
\* and its answers were written once.
C4_Witness ==
    /\ resp = Conflict
    /\ \E s \in DOMAIN submission : Submitted(s) /\ Cardinality(AnswersOf(s)) = 1

\* C5: of two concurrent submits of one attempt at most one succeeds: a
\* submit never scores and writes answers for an attempt that is already
\* submitted when it commits.
C5_SingleScoring ==
    [][\A w \in Workers :
          SubmitCommit(w) => submission[req[w].submission_id].submitted_at = NULL]_vars

\* C6: a submit by a caller who is not the attempt's student is answered
\* "Access denied" (Forbidden), returns at once and changes nothing: the
\* attempt's result columns and the answer table stay as they were.
C6_NotOwnerForbidden ==
    [][\A w \in Workers, p \in Callers \ {NoUser}, q \in DOMAIN quiz,
          s \in DOMAIN submission, a \in LedgerAnswers :
          (submission[s].student_id # p /\ SubmitCheck(w, p, q, s, a))
              => /\ resp' = Forbidden
                 /\ req'[w] = Idle
                 /\ submission' = submission
                 /\ answer' = answer]_vars

\* C6 witness: a submit was just refused to a stranger while the attempt is
\* in progress, all result columns NULL and no answer written.
C6_Witness ==
    /\ resp = Forbidden
    /\ \E s \in DOMAIN submission :
          /\ submission[s].submitted_at = NULL
          /\ submission[s].score = NULL /\ submission[s].max_score = NULL
          /\ submission[s].percentage = NULL /\ submission[s].passed = NULL
          /\ AnswersOf(s) = {}

CorrectIds(question_id) ==
    {o \in DOMAIN option : option[o].question_id = question_id /\ option[o].is_correct}
SelectedIds(sel) == {sel.items[k] : k \in DOMAIN sel.items}

\* C7: for every submitted attempt, percentage = score / max_score * 100
\* when max_score > 0 and 0 when max_score = 0, and passed is true exactly
\* when percentage >= the passing_score of the attempt's quiz.
C7_PercentageAndPassed ==
    \A s \in DOMAIN submission :
        Submitted(s) =>
            LET sub == submission[s]
                pct == sub.percentage[1]
            IN /\ sub.max_score[1] > 0
                    => pct.num * sub.max_score[1] = sub.score[1] * 100 * pct.den
               /\ sub.max_score[1] = 0 => pct.num = 0
               /\ sub.passed[1] = (pct.num >= quiz[sub.quiz_id].passing_score * pct.den)

\* C8: for every submitted attempt with max_score > 0, whatever the answer
\* list, 0 <= score <= max_score and 0 <= percentage <= 100.
C8_ScoreWithinMax ==
    \A s \in DOMAIN submission :
        (Submitted(s) /\ submission[s].max_score[1] > 0) =>
            LET sub == submission[s]
                pct == sub.percentage[1]
            IN /\ 0 <= sub.score[1] /\ sub.score[1] <= sub.max_score[1]
               /\ 0 <= pct.num /\ pct.num <= 100 * pct.den

\* C9: an answer to a multiple_choice question (one option marked correct,
\* the selection an array of ids) is correct, and earns the question's
\* points, exactly when the set of selected ids equals the set of correct
\* ids; any other selection earns 0.
C9_MultipleChoiceExactMatch ==
    \A i \in DOMAIN answer :
        LET a == answer[i]
            q == question[a.question_id]
            match == SelectedIds(a.selected_options) = CorrectIds(a.question_id)
        IN (/\ q.question_type = "multiple_choice"
            /\ a.selected_options.kind = "list"
            /\ Cardinality(CorrectIds(a.question_id)) = 1)
               => /\ a.is_correct = match
                  /\ a.points_earned = IF match THEN q.points ELSE 0

\* C10: an answer to a true_false question that selects one option, given
\* as the one-element array [x], is correct with the question's points when
\* x is the id of the single correct option, and wrong with 0 points
\* otherwise.
C10_TrueFalseSingleOption ==
    \A i \in DOMAIN answer :
        LET a == answer[i]
            q == question[a.question_id]
            hit == a.selected_options.items[1] \in CorrectIds(a.question_id)
        IN (/\ q.question_type = "true_false"
            /\ a.selected_options.kind = "list"
            /\ Len(a.selected_options.items) = 1
            /\ Cardinality(CorrectIds(a.question_id)) = 1)
               => /\ a.is_correct = hit
                  /\ a.points_earned = IF hit THEN q.points ELSE 0

\* Sums the claims on scoring speak of: the points of a set of questions,
\* the points of the questions a set of answer rows name, the points a list
\* of answer rows earned, and the points of the questions a list of answers
\* names.
RECURSIVE QuestionPoints(_)
QuestionPoints(Q) ==
    IF Q = {} THEN 0
    ELSE LET x == CHOOSE y \in Q : TRUE
         IN question[x].points + QuestionPoints(Q \ {x})

RECURSIVE AnsweredPoints(_)
AnsweredPoints(A) ==
    IF A = {} THEN 0
    ELSE LET x == CHOOSE y \in A : TRUE
         IN question[answer[x].question_id].points + AnsweredPoints(A \ {x})

RECURSIVE EarnedPoints(_, _)
EarnedPoints(rows, i) ==
    IF i > Len(rows) THEN 0
    ELSE rows[i].points_earned + EarnedPoints(rows, i + 1)

RECURSIVE ListPoints(_, _)
ListPoints(answers, i) ==
    IF i > Len(answers) THEN 0
    ELSE question[answers[i].question_id].points + ListPoints(answers, i + 1)

QuestionsOf(q) == {x \in DOMAIN question : question[x].quiz_id = q}

\* C11: the answer row of a short_answer question has points_earned = 0 and
\* an is_correct that is unknown (neither TRUE nor FALSE, so that it differs
\* from a graded-wrong FALSE), and the question's points are part of the
\* attempt's max_score (the total of the points of the questions answered).
C11_ShortAnswerUnknown ==
    \A i \in DOMAIN answer :
        LET a == answer[i]
        IN question[a.question_id].question_type = "short_answer"
              => /\ a.points_earned = 0
                 /\ a.is_correct \notin BOOLEAN
                 /\ submission[a.submission_id].max_score
                        = Some(AnsweredPoints(AnswersOf(a.submission_id)))

\* C12: the max_score of a submitted attempt is the sum of the points of
\* every question of the attempt's quiz, whatever the answer list covered.
C12_MaxScoreOfQuiz ==
    \A s \in DOMAIN submission :
        Submitted(s) =>
            submission[s].max_score = Some(QuestionPoints(QuestionsOf(submission[s].quiz_id)))

\* C13: the commit of a submit skips every answer that names no existing
\* question: the rows written are those of the other answers, in order,
\* max_score is the total of their questions' points and score the total of
\* what they earned, the submit answers 200 and the attempt is submitted.
C13_UnknownQuestionSkipped ==
    [][\A w \in Workers :
          SubmitCommit(w) =>
              LET sid == req[w].submission_id
                  known == SelectSeq(req[w].answers,
                                     LAMBDA a : a.question_id \in DOMAIN question)
                  added == {i \in DOMAIN answer' : i > Len(answer)}
              IN /\ Len(answer') = Len(answer) + Len(known)
                 /\ \A k \in DOMAIN known :
                       /\ answer'[Len(answer) + k].question_id = known[k].question_id
                       /\ answer'[Len(answer) + k].selected_options = known[k].selected_options
                       /\ answer'[Len(answer) + k].submission_id = sid
                 /\ submission'[sid].max_score = Some(ListPoints(known, 1))
                 /\ submission'[sid].score
                        = Some(EarnedPoints(SubSeq(answer', Len(answer) + 1, Len(answer')), 1))
                 /\ submission'[sid].submitted_at # NULL
                 /\ resp'.op = "submit" /\ resp'.status = 200]_vars

\* C13 witness: a submit whose answers name a question that does not exist
\* and one that does has passed its checks and is about to be scored.
C13_Witness ==
    \E w \in Workers :
        /\ req[w].pc = "submit_commit"
        /\ \E i, j \in DOMAIN req[w].answers :
              /\ i < j
              /\ req[w].answers[i].question_id \notin DOMAIN question
              /\ req[w].answers[j].question_id \in DOMAIN question

\* The requesters that are an instructor or an admin
StaffUsers == {u \in DOMAIN UserRole : UserRole[u] \in {"instructor", "admin"}}

BodyIds(body) == {body[k].id : k \in DOMAIN body}

\* C14: what get_quizzes lists is, for an instructor or admin, every quiz of
\* the module asked for, and for every other requester (a request without
\* a user included) exactly the published ones: never an unpublished quiz.
C14_UnpublishedHiddenFromNonStaff ==
    [][\A p \in CatalogueCallers, m \in ModuleIds :
          GetQuizzes(p, m) =>
              BodyIds(resp'.body)
                  = {q \in DOMAIN quiz :
                        /\ m # NoModule => quiz[q].module_id = m
                        /\ p \in StaffUsers \/ quiz[q].is_published}]_vars

\* C15: a get_quiz answered 200 to a student lists, for every question of
\* the quiz, the question's options (their ids, in order) without an
\* is_correct field; and no option listed to a requester who is not an
\* instructor or admin has an is_correct field.
C15_StudentSeesOptionsWithoutKey ==
    [][\A p \in CatalogueCallers, q \in DOMAIN quiz :
          (GetQuiz(p, q) /\ resp'.status = 200 /\ p \notin StaffUsers) =>
              LET listed == resp'.body[1].questions
              IN /\ \A k \in DOMAIN listed :
                        listed[k].options # NULL =>
                            \A j \in DOMAIN listed[k].options[1] :
                                "is_correct" \notin DOMAIN listed[k].options[1][j]
                 /\ (p \in DOMAIN UserRole /\ UserRole[p] = "student") =>
                        /\ BodyIds(listed) = QuestionsOf(q)
                        /\ \A k \in DOMAIN listed :
                              /\ listed[k].options # NULL
                              /\ BodyIds(listed[k].options[1])
                                    = {o \in DOMAIN option : option[o].question_id = listed[k].id}]_vars

\* C16: get_quiz of an unpublished quiz is answered 404 to every requester
\* that is no instructor or admin, and 200 to an instructor or admin; of a
\* published quiz it is answered 200 to every requester.
C16_GetQuizVisibility ==
    [][\A p \in CatalogueCallers, q \in DOMAIN quiz :
          GetQuiz(p, q) =>
              IF ~quiz[q].is_published /\ p \notin StaffUsers
              THEN resp'.status = 404
              ELSE resp'.status = 200]_vars

\* C17: in every reachable state every stored multiple_choice or true_false
\* question has exactly one option with is_correct = TRUE (create_quiz
\* refusing every other definition).
C17_ExactlyOneCorrectOption ==
    \A x \in DOMAIN question :
        question[x].question_type \in {"multiple_choice", "true_false"}
            => Cardinality(CorrectIds(x)) = 1

\* C18: create_quiz by a request without a user, or by a user who is
\* neither instructor nor admin, is answered 403 (Forbidden), returns at
\* once and adds no quiz, question or option.
C18_CreateNeedsStaff ==
    [][\A w \in Workers, p \in CatalogueCallers, data \in CatalogueBodies :
          (p \notin StaffUsers /\ CreateQuiz(w, p, data))
              => /\ resp' = CreateForbidden
                 /\ req'[w] = Idle
                 /\ quiz' = quiz
                 /\ question' = question
                 /\ option' = option]_vars

\* C18 witness: a create_quiz was just refused and the catalogue holds
\* exactly what the one creation before it, by an instructor or admin, left.
C18_Witness ==
    /\ resp = CreateForbidden
    /\ Len(quiz) = 1
    /\ \A w \in Workers : req[w] = Idle

\* C19: get_quiz_attempts by a user lists exactly the attempts of that user
\* for that quiz, each once, in strictly ascending attempt_number, and
\* changes no table.
C19_AttemptsOfCallerAscending ==
    [][\A p \in DOMAIN UserRole, q \in QuizIds :
          GetQuizAttempts(p, q) =>
              LET body == resp'.body
                  own == {s \in DOMAIN submission :
                             submission[s].quiz_id = q /\ submission[s].student_id = p}
              IN /\ resp'.status = 200
                 /\ BodyIds(body) = own
                 /\ Len(body) = Cardinality(own)
                 /\ \A i, j \in DOMAIN body :
                       i < j => body[i].attempt_number < body[j].attempt_number
                 /\ UNCHANGED <<quiz, question, option, submission, answer>>]_vars

\* C20: a start on a quiz that does not exist or is not published returns
\* an error at once and adds no attempt, whatever the caller's attempt
\* count; to a user who is neither instructor nor admin the error is 404
\* (NotFound).
C20_StartUnavailableQuiz ==
    [][\A w \in Workers, p \in Callers, q \in QuizIds :
          (StartCheck(w, p, q) /\ (q \notin DOMAIN quiz \/ ~quiz[q].is_published))
              => /\ resp'.status >= 400
                 /\ req'[w] = Idle
                 /\ submission' = submission
                 /\ (p \in DOMAIN UserRole /\ p \notin StaffUsers) => resp'.status = 404]_vars

C26_ScoredAgainstOwnQuiz ==
    [][\A w \in Workers :
          SubmitCommit(w) =>
              LET sid == req[w].submission_id
                  sub == submission'[sid]
                  pct == sub.percentage[1]
              IN /\ req[w].quiz_id = submission[sid].quiz_id
                 /\ sub.passed
                       = Some(pct.num >= quiz[submission[sid].quiz_id].passing_score * pct.den)]_vars

\* C27: every answer row of an attempt names a question of the attempt's
\* quiz.
C27_AnswersOfOwnQuiz ==
    \A i \in DOMAIN answer :
        question[answer[i].question_id].quiz_id = submission[answer[i].submission_id].quiz_id

\* C28: an attempt has at most one answer row per question, and so counts
\* a question's points at most once: max_score is the total of the points
\* of the distinct questions answered.
C28_OneAnswerPerQuestion ==
    \A s \in DOMAIN submission :
        /\ \A i, j \in AnswersOf(s) :
              answer[i].question_id = answer[j].question_id => i = j
        /\ Submitted(s) =>
              submission[s].max_score
                  = Some(QuestionPoints({answer[i].question_id : i \in AnswersOf(s)}))

\* C22: in every state an attempt is either in progress, with submitted_at,
\* score, max_score, percentage and passed all NULL and no answer row, or
\* submitted, with all five set.
C22_ResultsIffSubmitted ==
    \A s \in DOMAIN submission :
        LET sub == submission[s]
        IN IF sub.submitted_at = NULL
           THEN /\ sub.score = NULL /\ sub.max_score = NULL
                /\ sub.percentage = NULL /\ sub.passed = NULL
                /\ AnswersOf(s) = {}
           ELSE /\ sub.score # NULL /\ sub.max_score # NULL
                /\ sub.percentage # NULL /\ sub.passed # NULL

\* C22 witness: one attempt is submitted, with its results and an answer
\* row, while another is still in progress.
C22_Witness ==
    \E s, t \in DOMAIN submission :
        /\ submission[s].submitted_at # NULL /\ submission[s].score # NULL
        /\ AnswersOf(s) # {}
        /\ submission[t].submitted_at = NULL

\* C25: start_quiz, submit_quiz and get_quiz_attempts of a request without
\* a user are answered 401 (Unauthenticated) at once: no step of the
\* handler stays pending and the attempt and answer tables are unchanged.
C25_NoUserUnauthenticated ==
    [][/\ \A w \in Workers, q \in QuizIds :
             StartCheck(w, NoUser, q)
                 => /\ resp' = Unauthenticated("start")
                    /\ req'[w] = Idle
                    /\ submission' = submission /\ answer' = answer
       /\ \A w \in Workers, q \in QuizIds, s \in SubmissionIds, a \in LedgerAnswers :
             SubmitCheck(w, NoUser, q, s, a)
                 => /\ resp' = Unauthenticated("submit")
                    /\ req'[w] = Idle
                    /\ submission' = submission /\ answer' = answer
       /\ \A q \in QuizIds :
             GetQuizAttempts(NoUser, q)
                 => /\ resp' = Unauthenticated("get_quiz_attempts")
                    /\ req' = req
                    /\ submission' = submission /\ answer' = answer]_vars

\* C25 witness: a submit without a user was just refused while an attempt
\* is in progress, still without results and answers.
C25_Witness ==
    /\ resp = Unauthenticated("submit")
    /\ \E s \in DOMAIN submission :
          /\ submission[s].submitted_at = NULL
          /\ submission[s].score = NULL
          /\ AnswersOf(s) = {}
    /\ \A w \in Workers : req[w] = Idle

\* C23: no step of any handler removes an attempt or changes its quiz_id,
\* student_id or attempt_number; the attempt table grows by one row at a
\* time and only in the insert of a start that is then answered 200, the
\* new row belonging to the user who sent that start.
C23_AttemptsOnlyGrowByStart ==
    [][/\ \A s \in DOMAIN submission :
             /\ s \in DOMAIN submission'
             /\ submission'[s].quiz_id = submission[s].quiz_id
             /\ submission'[s].student_id = submission[s].student_id
             /\ submission'[s].attempt_number = submission[s].attempt_number
       /\ Len(submission') # Len(submission) =>
             /\ Len(submission') = Len(submission) + 1
             /\ resp'.op = "start" /\ resp'.status = 200
             /\ \E w \in Workers :
                   /\ req[w].pc = "start_insert" /\ req'[w] = Idle
                   /\ submission'[Len(submission')].student_id = req[w].user
                   /\ submission'[Len(submission')].quiz_id = req[w].quiz_id
                   /\ submission'[Len(submission')].submitted_at = NULL]_vars

\* C23 witness: two attempts exist, one of them submitted, and a handler
\* other than start and submit has just answered.
C23_Witness ==
    /\ Len(submission) = 2
    /\ \E s \in DOMAIN submission : submission[s].submitted_at # NULL
    /\ resp.op \in {"get_quiz_attempts", "get_quizzes", "get_quiz", "create_quiz"}
    /\ resp.status \in {200, 201}

\* C29: create_quiz is all or nothing: the step that ends a creation either
\* answers 201 with every supplied question, and every option of each,
\* stored for the new quiz, or fails and leaves no row of that quiz, the
\* quiz row included.
C29_CreateAllOrNothing ==
    [][\A w \in Workers :
          CreateQuestions(w) =>
              LET quiz_id == req[w].quiz_id
                  stored == {x \in DOMAIN question' : question'[x].quiz_id = quiz_id}
              IN \/ /\ resp'.status = 201
                    /\ Cardinality(stored) = Len(req[w].questions)
                    /\ \A i \in DOMAIN req[w].questions :
                          \E x \in stored :
                              /\ question'[x].order = i - 1
                              /\ Cardinality({o \in DOMAIN option' : option'[o].question_id = x})
                                    = Len(req[w].questions[i].options)
                 \/ /\ resp'.status >= 400
                    /\ stored = {}
                    /\ quiz_id \notin DOMAIN quiz']_vars

\* C21: an attempt is created in progress (started_at set, submitted_at
\* NULL), and once submitted_at is set no later step changes the attempt:
\* submitted_at, score, max_score, percentage, passed and
\* time_spent_seconds stay as the one submission left them.
C21_SubmittedIsTerminal ==
    [][\A s \in DOMAIN submission' :
          IF s \notin DOMAIN submission
          THEN submission'[s].submitted_at = NULL /\ submission'[s].started_at = now
          ELSE submission[s].submitted_at # NULL => submission'[s] = submission[s]]_vars

\* C30: a submit by the owner for an attempt in progress always passes the
\* checks, whatever the time elapsed since the start, the quiz's
\* time_limit and the student's other attempts in progress; and every
\* attempt is eventually submitted.
C30_InProgressCanComplete ==
    /\ [][\A w \in Workers, s \in DOMAIN submission, a \in LifecycleAnswers :
             (/\ submission[s].submitted_at = NULL
              /\ SubmitCheck(w, submission[s].student_id, submission[s].quiz_id, s, a))
                 => req'[w].pc = "submit_commit" /\ req'[w].submission_id = s]_vars
    /\ \A s \in SubmissionIds :
          (s \in DOMAIN submission) ~> (s \in DOMAIN submission /\ submission[s].submitted_at # NULL)

\* C30 witness: an attempt was submitted later than its start, beyond the
\* quiz's time limit, while another attempt of the same student was still
\* in progress.
C30_Witness ==
    \E s, t \in DOMAIN submission :
        /\ submission[s].submitted_at # NULL
        /\ submission[s].time_spent_seconds[1] > quiz[submission[s].quiz_id].time_limit[1] * 60
        /\ t # s
        /\ submission[t].student_id = submission[s].student_id
        /\ submission[t].submitted_at = NULL
        /\ resp.op = "submit" /\ resp.status = 200

====
